---------------------------- MODULE Spec2Model ----------------------------
(***************************************************************************)
(* The context-budgeting engine of src/core/context_manager.py             *)
(* (class ContextManager): the turn store, the importance and relevance    *)
(* scores, the token-budgeted window selection and the background          *)
(* summarization that evicts the oldest turns.                             *)
(*                                                                         *)
(* Scheduling.  The engine runs on one asyncio event loop.  A coroutine    *)
(* gives the loop back only at an await that really suspends; no await of  *)
(* ContextManager does (every awaited coroutine of the class runs to its   *)
(* return without awaiting a future), so add_conversation_turn, a run of   *)
(* a scheduled _maybe_create_summary task, get_context_window and          *)
(* get_conversation_stats are each one step of the model.  A task made by  *)
(* asyncio.create_task starts only after its creator gave the loop back,   *)
(* so it is a later step.                                                  *)
(*                                                                         *)
(* Numbers.  Importance scores are in hundredths (1.0 is 100).  Relevance  *)
(* scores are fixed-point in units of 10^-8.  The token quantities of      *)
(* get_context_window are in tenths of a token, because the attachment     *)
(* estimate is words * 1.3; stored per-turn token counts are whole tokens. *)
(* Python evaluates these in binary floating point; the model uses the     *)
(* decimal values.                                                         *)
(*                                                                         *)
(* Text.  A message is represented by what the code reads from it: its     *)
(* word count, the keyword set extract_keywords yields, the length of the  *)
(* assistant reply, whether code fragments were found, and so on.          *)
(***************************************************************************)
EXTENDS Integers, Sequences, FiniteSets, TLC

VARIABLES
    conversation_turns,  \* self.conversation_turns: the deque of live turns, oldest first
    summaries,           \* self.summaries
    max_context_tokens,  \* self.max_context_tokens (the token budget), whole tokens
    tokenizer,           \* self.tokenizer is not None
    embedding_model,     \* self.embedding_model is not None
    tasks,               \* scheduled _maybe_create_summary tasks that have not run yet
    clock,               \* the last reading of datetime.now(); successive readings do not decrease
    recorded,            \* number of add_conversation_turn calls so far (numbers the turns)
    loop_running,        \* the engine's callers run inside a running asyncio event loop
    ret                  \* what the last operation returned, with its arguments

vars == <<conversation_turns, summaries, max_context_tokens, tokenizer,
          embedding_model, tasks, clock, recorded, loop_running, ret>>

-----------------------------------------------------------------------------
(* Program constants *)

summary_threshold == 20

deque_maxlen == 1000

system_tokens == 500

\* the number of entries of complexity_keywords in _calculate_importance_score
complexity_keywords == 15

(* Bounds of the model *)

\* record_turn calls in a run of Spec
MaxTurns == 30

\* record_turn calls in a run of SpecWindow
MaxStore == 3

\* SpecFull starts with this many turns recorded
FullStart == 998

\* record_turn calls in a run of SpecFull, counting those before its start
MaxFullTurns == 1011

\* evicting summarization passes in a run of SpecFull
MaxPasses == 2

\* the exchanges of SpecSummary repeat with this period
SummaryPeriod == 5

\* repeated occurrences of complexity keywords in a user message of SpecImportance
MaxRepeats == 2

-----------------------------------------------------------------------------
(* Helpers on sequences *)

Min(a, b) == IF a <= b THEN a ELSE b

Range(s) == {s[i] : i \in DOMAIN s}

RECURSIVE SumOver(_, _)
\* sum(f(x) for x in s), f given as the name of a field (summed by halves, to
\* keep the evaluation shallow on a store of a thousand turns)
SumOver(s, field) ==
    IF s = <<>> THEN 0
    ELSE IF Len(s) = 1 THEN s[1][field]
    ELSE LET h == Len(s) \div 2
         IN  SumOver(SubSeq(s, 1, h), field) + SumOver(SubSeq(s, h + 1, Len(s)), field)

Reverse(s) == [i \in 1..Len(s) |-> s[Len(s) + 1 - i]]

CountIf(s, field) == Cardinality({i \in DOMAIN s : s[i][field]})

\* list.sort(key=score, reverse=True): stable, equal scores keep their order
RECURSIVE InsertByScore(_, _)
InsertByScore(s, x) ==
    IF s = <<>> THEN <<x>>
    ELSE IF s[1].score >= x.score THEN <<s[1]>> \o InsertByScore(Tail(s), x)
    ELSE <<x>> \o s

RECURSIVE SortByScore(_)
SortByScore(s) ==
    IF s = <<>> THEN <<>>
    ELSE InsertByScore(SortByScore(SubSeq(s, 1, Len(s) - 1)), s[Len(s)])

\* (variant for C15: appendleft, the new turn is stored before the older ones)
DequeAppend_left(q, x) ==
    IF Len(q) >= deque_maxlen THEN <<x>> \o SubSeq(q, 1, Len(q) - 1) ELSE <<x>> \o q

\* (variant for C14: a deque without maxlen)
DequeAppend_unbounded(q, x) == Append(q, x)

\* deque(maxlen=...).append: a full deque discards its oldest element
DequeAppend(q, x) ==
    IF Len(q) >= deque_maxlen THEN Append(Tail(q), x) ELSE Append(q, x)

-----------------------------------------------------------------------------
(* Token counting and importance *)

\* the word-count estimate int(len(text.split()) * 1.33)
WordEstimate(words) == (words * 133) \div 100

\* _count_tokens: `words` is the word count of the joined text, `enc` what
\* tokenizer.encode would give: <<n>> for n tokens, <<>> when it raises
_count_tokens(words, enc) ==
    IF ~tokenizer THEN WordEstimate(words)
    ELSE IF enc = <<>> THEN WordEstimate(words)
    ELSE enc[1]

\* complexity_score for a user message; `hits` lists the occurrences of
\* complexity keywords in the lowercased message, each by the index of its
\* keyword in complexity_keywords:
\* sum(1 for keyword in complexity_keywords if keyword in user_content)
complexity_score(hits) ==
    Cardinality({keyword \in 1..complexity_keywords : keyword \in Range(hits)})

\* (variant for C18: the result is not capped at 3.0)
_calculate_importance_score_uncapped(code, att, rlen, cx) ==
    LET b0 == 100
        b1 == IF code THEN (b0 * 15) \div 10 ELSE b0
        b2 == IF att THEN (b1 * 13) \div 10 ELSE b1
        b3 == IF rlen > 500 THEN (b2 * 12) \div 10
              ELSE IF rlen > 1000 THEN (b2 * 14) \div 10
              ELSE b2
    IN  b3 + cx * 10

\* _calculate_importance_score, in hundredths.  code, att: code_blocks and
\* attachment_ids are non-empty; rlen: len(assistant_message.content);
\* cx: how many of the 15 complexity keywords occur in the user message
_calculate_importance_score(code, att, rlen, cx) ==
    LET b0 == 100
        b1 == IF code THEN (b0 * 15) \div 10 ELSE b0
        b2 == IF att THEN (b1 * 13) \div 10 ELSE b1
        b3 == IF rlen > 500 THEN (b2 * 12) \div 10
              ELSE IF rlen > 1000 THEN (b2 * 14) \div 10
              ELSE b2
        b4 == b3 + cx * 10
    IN  Min(b4, 300)

-----------------------------------------------------------------------------
(* Summarization and eviction *)

\* the allowlist of technical terms of _create_conversation_summary
TechTerms ==
    {"python", "javascript", "react", "api", "database", "function", "class", "method"}

\* int(x) for x = a / b, b > 0: truncation toward zero
TruncDiv(a, b) == IF a >= 0 THEN a \div b ELSE -((-a) \div b)

Max(a, b) == IF a >= b THEN a ELSE b

\* The sentences text.split('.') cuts the joined text of `turns` into, in
\* order, the blank ones left out.  The texts of the model hold a '.' only as
\* the last character of a reply (turn.dot), so a sentence is a run of turns
\* that ends with a closed reply or with the block; turn.chars is the length
\* of the turn's two messages joined, less the closing '.', and the turns of a
\* sentence are one space apart.  imp: the entries of important_words that
\* occur in the sentence.
Sentences(turns) ==
    LET n == Len(turns)
        Starts == {i \in 1..n : i = 1 \/ turns[i - 1].dot}
        EndOf(i) == CHOOSE j \in i..n :
                       /\ turns[j].dot \/ j = n
                       /\ \A m \in i..(j - 1) : ~turns[m].dot
        Piece(i) == LET part == SubSeq(turns, i, EndOf(i))
                    IN  [first |-> i,
                         chars |-> SumOver(part, "chars") + (Len(part) - 1),
                         words |-> SumOver(part, "words"),
                         imp   |-> UNION {part[k].imp : k \in DOMAIN part},
                         kw    |-> UNION {part[k].kw : k \in DOMAIN part}]
    IN  SelectSeq([i \in 1..n |-> Piece(i)], LAMBDA p : p.first \in Starts)

\* _create_simple_summary on the sentences of a text: those under 20
\* characters are dropped, the others scored min(len / 100, 1.0) plus 1 per
\* important word (in hundredths), sorted by score, and the first five are
\* joined with '. ' and closed with '.'.  The result is the summary text as
\* the code reads it: its sentences (each named by the turn it starts at) in
\* the order they are joined, its word count, its length and its keywords.
_create_simple_summary(sentences) ==
    LET long == SelectSeq(sentences, LAMBDA p : p.chars >= 20)
        sentence_scores ==
            [i \in DOMAIN long |->
                [first |-> long[i].first, chars |-> long[i].chars,
                 words |-> long[i].words, kw |-> long[i].kw,
                 score |-> Min(long[i].chars, 100) + 100 * Cardinality(long[i].imp)]]
        sorted == SortByScore(sentence_scores)
        top_sentences == SubSeq(sorted, 1, Min(5, Len(sorted)))
    IN  [sentences |-> [i \in DOMAIN top_sentences |-> top_sentences[i].first],
         words |-> IF top_sentences = <<>> THEN 1 ELSE SumOver(top_sentences, "words"),
         chars |-> IF top_sentences = <<>> THEN 1
                   ELSE SumOver(top_sentences, "chars") + 2 * (Len(top_sentences) - 1) + 1,
         kw |-> UNION {top_sentences[i].kw : i \in DOMAIN top_sentences}]

\* the summary text _create_conversation_summary gets for `turns` (line 424)
SummaryTexts(turns) == { _create_simple_summary(Sentences(turns)) }

\* (variant for C21: the period is read off the wrong ends of the block)
_create_conversation_summary_swapped(turns, text) ==
    IF turns = <<>> THEN <<>>
    ELSE << [period_start |-> turns[Len(turns)].timestamp,
             period_end   |-> turns[1].timestamp,
             summary_text |-> text,
             key_topics   |-> UNION {turns[i].kw \cap TechTerms : i \in DOMAIN turns},
             tokens_saved |-> TruncDiv(10 * SumOver(turns, "tokens_used")
                                         - 13 * text.words, 10),
             covered      |-> [i \in DOMAIN turns |-> turns[i].id]] >>

\* _create_conversation_summary; `text` is the summary text.  The result is an
\* optional value: <<>> is None, <<s>> the summary s.  covered is not a field
\* of the code's ConversationSummary: it records which turns were passed in.
\* Every lowercased word fails the mixed-case test, so the topics are the
\* allowlisted words of the turns.
_create_conversation_summary(turns, text) ==
    IF turns = <<>> THEN <<>>
    ELSE << [period_start |-> turns[1].timestamp,
             period_end   |-> turns[Len(turns)].timestamp,
             summary_text |-> text,
             key_topics   |-> UNION {turns[i].kw \cap TechTerms : i \in DOMAIN turns},
             tokens_saved |-> TruncDiv(10 * SumOver(turns, "tokens_used")
                                         - 13 * text.words, 10),
             covered      |-> [i \in DOMAIN turns |-> turns[i].id]] >>

\* (variant for C29: the guard compares with half the threshold)
BelowThreshold_half(q) == Len(q) < summary_threshold \div 2

\* (variant for C7: the guard is missing)
BelowThreshold_never(q) == FALSE

\* the guard of _maybe_create_summary: fewer turns than the threshold, return
BelowThreshold(q) == Len(q) < summary_threshold

\* (variant for C5: the slice takes summary_threshold turns, not half of them)
turns_to_summarize_whole(q) == SubSeq(q, 1, Min(Len(q), summary_threshold))

\* list(self.conversation_turns)[:self.summary_threshold // 2]
turns_to_summarize(q) == SubSeq(q, 1, Min(Len(q), summary_threshold \div 2))

\* (variant for C26: the eviction loop is missing)
Evict_none(q, snapshot) == q

\* (variant for C28: the store is cleared after a pass, as with clear() in
\* place of the popleft loop)
Evict_all(q, snapshot) == <<>>

\* (variant for C3: the eviction loop stops one turn short of the snapshot)
Evict_short(q, snapshot) == SubSeq(q, Min(Len(q), Len(snapshot) - 1) + 1, Len(q))

\* (variant for C4: the eviction loop runs summary_threshold times, whatever
\* the length of the snapshot)
Evict_threshold(q, snapshot) == SubSeq(q, Min(Len(q), summary_threshold) + 1, Len(q))

\* the eviction loop: one popleft per summarized turn, while the deque is non-empty
Evict(q, snapshot) == SubSeq(q, Min(Len(q), Len(snapshot)) + 1, Len(q))

\* (variant for C17: the new summary replaces the list instead of joining it)
SummaryPass_latest(q, sums, text) ==
    IF BelowThreshold(q) THEN [turns |-> q, summaries |-> sums]
    ELSE LET snapshot == turns_to_summarize(q)
             summary == _create_conversation_summary(snapshot, text)
         IN  IF snapshot = <<>> \/ summary = <<>>
             THEN [turns |-> q, summaries |-> sums]
             ELSE [turns |-> Evict(q, snapshot), summaries |-> summary]

\* The store and the summary list after one run of _maybe_create_summary that
\* draws `text` as its summary text
SummaryPass(q, sums, text) ==
    IF BelowThreshold(q) THEN [turns |-> q, summaries |-> sums]
    ELSE LET snapshot == turns_to_summarize(q)
             summary == _create_conversation_summary(snapshot, text)
         IN  IF snapshot = <<>> \/ summary = <<>>
             THEN [turns |-> q, summaries |-> sums]
             ELSE [turns |-> Evict(q, snapshot), summaries |-> sums \o summary]

\* One scheduled _maybe_create_summary task runs, from its start to its return.
\* ret notes what the run did: the store size it found, the turns it removed,
\* how many summaries it appended, and whether the step before it was a run
\* that appended a summary
_maybe_create_summary ==
    /\ tasks > 0
    /\ \E text \in SummaryTexts(turns_to_summarize(conversation_turns)) :
         LET after == SummaryPass(conversation_turns, summaries, text)
         IN  /\ conversation_turns' = after.turns
             /\ summaries' = after.summaries
             /\ ret' = [op |-> "_maybe_create_summary",
                        size |-> Len(conversation_turns),
                        evicted |-> SubSeq(conversation_turns, 1,
                                      Len(conversation_turns) - Len(after.turns)),
                        created |-> Len(after.summaries) - Len(summaries),
                        after_pass |-> (ret.op = "_maybe_create_summary"
                                        /\ ret.created = 1)]
    /\ tasks' = tasks - 1
    /\ UNCHANGED <<max_context_tokens, tokenizer, embedding_model, clock, recorded,
                   loop_running>>

-----------------------------------------------------------------------------
(* Recording a turn *)

\* The ConversationTurn add_conversation_turn builds from an exchange x.
\* x.words: word count of the two messages joined; x.enc: the tokenizer's
\* answer for them; x.kw: the keyword set of the two messages; x.kp: how many
\* key points _extract_key_points finds in the turn; x.tick: how far
\* datetime.now() has advanced since the previous reading (0: the same reading);
\* x.chars, x.dot, x.imp: the text as Sentences reads it
ConversationTurn(x) ==
    [id               |-> recorded + 1,
     timestamp        |-> clock + x.tick,
     tokens_used      |-> _count_tokens(x.words, x.enc),
     importance_score |-> _calculate_importance_score(x.code, x.att, x.rlen, x.cx),
     code_blocks      |-> x.code,
     attachments      |-> x.att,
     words            |-> x.words,
     kw               |-> x.kw,
     kp               |-> x.kp,
     chars            |-> x.chars,
     dot              |-> x.dot,
     imp              |-> x.imp]

\* (variant for C6: the call runs the summarization itself before it returns,
\* as if it awaited _maybe_create_summary instead of scheduling it)
add_conversation_turn_inline(x) ==
    LET turn == ConversationTurn(x)
        appended == DequeAppend(conversation_turns, turn)
    IN  /\ \E text \in SummaryTexts(turns_to_summarize(appended)) :
             LET after == SummaryPass(appended, summaries, text)
             IN  /\ conversation_turns' = after.turns
                 /\ summaries' = after.summaries
        /\ clock' = turn.timestamp
        /\ recorded' = recorded + 1
        /\ ret' = [op |-> "add_conversation_turn", val |-> turn.id]
        /\ UNCHANGED <<tasks, max_context_tokens, tokenizer, embedding_model,
                       loop_running>>

\* (variant for C25: no task is scheduled while one is waiting)
add_conversation_turn_once(x) ==
    LET turn == ConversationTurn(x)
        appended == DequeAppend(conversation_turns, turn)
        schedules == Len(appended) >= summary_threshold
    IN  /\ conversation_turns' = appended
        /\ tasks' = IF schedules /\ loop_running /\ tasks = 0 THEN 1 ELSE tasks
        /\ clock' = turn.timestamp
        /\ recorded' = recorded + 1
        /\ ret' = IF schedules /\ ~loop_running
                  THEN [op |-> "add_conversation_turn", raised |-> "RuntimeError"]
                  ELSE [op |-> "add_conversation_turn", val |-> turn.id]
        /\ UNCHANGED <<summaries, max_context_tokens, tokenizer, embedding_model,
                       loop_running>>

\* (variant for C27: the task is scheduled only once the store holds more than
\* summary_threshold turns)
add_conversation_turn_late(x) ==
    LET turn == ConversationTurn(x)
        appended == DequeAppend(conversation_turns, turn)
        schedules == Len(appended) > summary_threshold
    IN  /\ conversation_turns' = appended
        /\ tasks' = IF schedules /\ loop_running THEN tasks + 1 ELSE tasks
        /\ clock' = turn.timestamp
        /\ recorded' = recorded + 1
        /\ ret' = IF schedules /\ ~loop_running
                  THEN [op |-> "add_conversation_turn", raised |-> "RuntimeError"]
                  ELSE [op |-> "add_conversation_turn", val |-> turn.id]
        /\ UNCHANGED <<summaries, max_context_tokens, tokenizer, embedding_model,
                       loop_running>>

\* add_conversation_turn: append, then schedule the summarization task when
\* the store holds summary_threshold turns or more; returns the turn id.
\* asyncio.create_task raises RuntimeError ("no running event loop") when the
\* caller is not inside a running loop: the turn is appended by then, no task
\* is scheduled and the call returns nothing
add_conversation_turn(x) ==
    LET turn == ConversationTurn(x)
        appended == DequeAppend(conversation_turns, turn)
        schedules == Len(appended) >= summary_threshold
    IN  /\ conversation_turns' = appended
        /\ tasks' = IF schedules /\ loop_running THEN tasks + 1 ELSE tasks
        /\ clock' = turn.timestamp
        /\ recorded' = recorded + 1
        /\ ret' = IF schedules /\ ~loop_running
                  THEN [op |-> "add_conversation_turn", raised |-> "RuntimeError"]
                  ELSE [op |-> "add_conversation_turn", val |-> turn.id]
        /\ UNCHANGED <<summaries, max_context_tokens, tokenizer, embedding_model,
                       loop_running>>

-----------------------------------------------------------------------------
(* Statistics *)

\* (variant for C1: total_turns also counts the turns the summaries replaced)
conversation_stats_ever ==
    IF conversation_turns = <<>> THEN <<>>
    ELSE LET n == Len(conversation_turns)
             total == SumOver(conversation_turns, "importance_score")
         IN  [total_turns |-> n + (summary_threshold \div 2) * Len(summaries),
              total_tokens |-> SumOver(conversation_turns, "tokens_used"),
              average_importance |-> (2 * total + n) \div (2 * n),
              turns_with_code |-> CountIf(conversation_turns, "code_blocks"),
              turns_with_attachments |-> CountIf(conversation_turns, "attachments"),
              summaries_created |-> Len(summaries),
              tokens_saved_by_summaries |-> SumOver(summaries, "tokens_saved")]

\* get_conversation_stats' result: the empty dict for an empty store.
\* average_importance is round(mean, 2), in hundredths
conversation_stats ==
    IF conversation_turns = <<>> THEN <<>>
    ELSE LET n == Len(conversation_turns)
             total == SumOver(conversation_turns, "importance_score")
         IN  [total_turns |-> n,
              total_tokens |-> SumOver(conversation_turns, "tokens_used"),
              average_importance |-> (2 * total + n) \div (2 * n),
              turns_with_code |-> CountIf(conversation_turns, "code_blocks"),
              turns_with_attachments |-> CountIf(conversation_turns, "attachments"),
              summaries_created |-> Len(summaries),
              tokens_saved_by_summaries |-> SumOver(summaries, "tokens_saved")]

get_conversation_stats ==
    /\ ret' = [op |-> "get_conversation_stats", val |-> conversation_stats]
    /\ UNCHANGED <<conversation_turns, summaries, max_context_tokens, tokenizer,
                   embedding_model, tasks, clock, recorded, loop_running>>

-----------------------------------------------------------------------------
(* Relevance scoring and window selection *)

\* importance_decay ** i, fixed-point with six decimals (0.95 is 95/100)
RECURSIVE DecayPow(_)
DecayPow(i) == IF i = 0 THEN 1000000 ELSE (DecayPow(i - 1) * 95) \div 100

\* _calculate_semantic_similarity, in units of 10^-8; s is what the embedding
\* model gives for the pair: <<c>> for the cosine c in hundredths, <<>> when
\* it raises
_calculate_semantic_similarity(s) ==
    IF ~embedding_model THEN 0
    ELSE IF s = <<>> THEN 0
    ELSE s[1] * 1000000

\* _calculate_keyword_similarity on two keyword sets (what extract_keywords
\* gives for the two texts): their Jaccard index, in units of 10^-8
_calculate_keyword_similarity(k1, k2) ==
    IF k1 = {} \/ k2 = {} THEN 0
    ELSE (Cardinality(k1 \cap k2) * 100000000) \div Cardinality(k1 \cup k2)

\* The score of the turn at position i of reversed(conversation_turns),
\* i = 0 the newest, for query q; sim[id] is the embedding model's answer
RelevanceScore(turn, i, q, sim) ==
    turn.importance_score * DecayPow(i)
    + (IF embedding_model
       THEN _calculate_semantic_similarity(sim[turn.id]) \div 2
       ELSE 0)
    + (_calculate_keyword_similarity(q.kw, turn.kw) * 3) \div 10

\* turn_scores before the sort: newest turn first
turn_scores(q, sim) ==
    LET rev == Reverse(conversation_turns)
    IN  [j \in DOMAIN rev |->
            [turn |-> rev[j], score |-> RelevanceScore(rev[j], j - 1, q, sim)]]

\* (variant for C2: the loop tests the running total before it adds the
\* candidate, so the turn that crosses the budget is still accepted)
RECURSIVE SelectWhileFits_overrun(_, _, _)
SelectWhileFits_overrun(cands, used, available) ==
    IF cands = <<>> THEN <<>>
    ELSE IF used <= available
         THEN <<cands[1].turn>>
              \o SelectWhileFits_overrun(Tail(cands),
                                         used + 10 * cands[1].turn.tokens_used, available)
         ELSE <<>>

\* (variant for C9: a candidate that does not fit is skipped and the loop goes
\* on to the lower-scored ones)
RECURSIVE SelectWhileFits_skip(_, _, _)
SelectWhileFits_skip(cands, used, available) ==
    IF cands = <<>> THEN <<>>
    ELSE IF used + 10 * cands[1].turn.tokens_used <= available
         THEN <<cands[1].turn>>
              \o SelectWhileFits_skip(Tail(cands),
                                      used + 10 * cands[1].turn.tokens_used, available)
         ELSE SelectWhileFits_skip(Tail(cands), used, available)

\* (variant for C12: the top candidate is accepted whatever it costs, so that a
\* window is never without a turn)
RECURSIVE SelectWhileFits_first(_, _, _)
SelectWhileFits_first(cands, used, available) ==
    IF cands = <<>> THEN <<>>
    ELSE IF used = 0 \/ used + 10 * cands[1].turn.tokens_used <= available
         THEN <<cands[1].turn>>
              \o SelectWhileFits_first(Tail(cands),
                                       Max(1, used + 10 * cands[1].turn.tokens_used),
                                       available)
         ELSE <<>>

\* The selection loop: accept candidates in order while the running total
\* stays within available (tenths of a token); stop at the first that does not fit
RECURSIVE SelectWhileFits(_, _, _)
SelectWhileFits(cands, used, available) ==
    IF cands = <<>> THEN <<>>
    ELSE IF used + 10 * cands[1].turn.tokens_used <= available
         THEN <<cands[1].turn>>
              \o SelectWhileFits(Tail(cands), used + 10 * cands[1].turn.tokens_used,
                                 available)
         ELSE <<>>

\* list.sort(key=timestamp): stable, ascending
RECURSIVE InsertByTimestamp(_, _)
InsertByTimestamp(s, x) ==
    IF s = <<>> THEN <<x>>
    ELSE IF s[1].timestamp <= x.timestamp THEN <<s[1]>> \o InsertByTimestamp(Tail(s), x)
    ELSE <<x>> \o s

\* (variant for C8: the accepted turns are returned in acceptance order)
SortByTimestamp_skip(s) == s

RECURSIVE SortByTimestamp(_)
SortByTimestamp(s) ==
    IF s = <<>> THEN <<>>
    ELSE InsertByTimestamp(SortByTimestamp(SubSeq(s, 1, Len(s) - 1)), s[Len(s)])

_select_relevant_turns(q, sim, available) ==
    IF conversation_turns = <<>> THEN <<>>
    ELSE SortByTimestamp(SelectWhileFits(SortByScore(turn_scores(q, sim)), 0, available))

\* The score _get_relevant_summary gives summary s for query q, in units of
\* 10^-8: 1.0 per topic that occurs in the query (q.sub: the allowlisted terms
\* that are substrings of the lowercased query) plus the keyword similarity
SummaryScore(s, q) ==
    Cardinality(s.key_topics \cap q.sub) * 100000000
    + _calculate_keyword_similarity(q.kw, s.summary_text.kw)

\* The loop of _get_relevant_summary over sums, from (best_summary, best_score)
RECURSIVE BestSummary(_, _, _)
BestSummary(sums, q, best) ==
    IF sums = <<>> THEN best
    ELSE LET score == SummaryScore(sums[1], q)
         IN  IF score > best.score
             THEN BestSummary(Tail(sums), q, [summary |-> <<sums[1]>>, score |-> score])
             ELSE BestSummary(Tail(sums), q, best)

\* (variant for C22: the first summary that scores above 0.5 is returned)
_get_relevant_summary_first(q) ==
    LET above == {k \in DOMAIN summaries : SummaryScore(summaries[k], q) > 50000000}
    IN  IF above = {} THEN <<>>
        ELSE <<summaries[CHOOSE k \in above : \A j \in above : k <= j].summary_text>>

\* _get_relevant_summary: <<>> is None, <<t>> the summary text t
_get_relevant_summary(q) ==
    IF summaries = <<>> THEN <<>>
    ELSE LET best == BestSummary(summaries, q, [summary |-> <<>>, score |-> 0])
         IN  IF best.summary # <<>> /\ best.score > 50000000
             THEN <<best.summary[1].summary_text>>
             ELSE <<>>

\* _extract_key_points: the key points of the turns in order (each named by
\* its turn), cut to the first ten
RECURSIVE KeyPointsOf(_)
KeyPointsOf(turns) ==
    IF turns = <<>> THEN <<>>
    ELSE [k \in 1..turns[1].kp |-> turns[1].id] \o KeyPointsOf(Tail(turns))

_extract_key_points(turns) ==
    LET all == KeyPointsOf(turns) IN SubSeq(all, 1, Min(10, Len(all)))

\* selected_messages: the user and the assistant message of each turn
RECURSIVE MessagesOf(_)
MessagesOf(turns) ==
    IF turns = <<>> THEN <<>>
    ELSE << [turn |-> turns[1].id, timestamp |-> turns[1].timestamp, role |-> "user"],
            [turn |-> turns[1].id, timestamp |-> turns[1].timestamp, role |-> "assistant"] >>
         \o MessagesOf(Tail(turns))

RECURSIVE AttachmentTokens(_)
\* attachment_tokens, in tenths: len(ctx.summary.split()) * 1.3 summed over atts,
\* the word counts of the attachment summaries
AttachmentTokens(atts) ==
    IF atts = <<>> THEN 0 ELSE 13 * atts[1] + AttachmentTokens(Tail(atts))

\* (variant for C10: no early return for the empty store)
ContextWindow_noguard(q, atts, sim) ==
    LET current_tokens == _count_tokens(q.words, q.enc)
        attachment_tokens == AttachmentTokens(atts)
        available_tokens ==
            10 * (max_context_tokens - system_tokens - current_tokens)
            - attachment_tokens
        selected_turns == _select_relevant_turns(q, sim, available_tokens)
    IN  [messages |-> MessagesOf(selected_turns),
         total_tokens |-> 10 * SumOver(selected_turns, "tokens_used")
                          + 10 * system_tokens + 10 * current_tokens
                          + attachment_tokens,
         summary |-> _get_relevant_summary(q),
         key_points |-> _extract_key_points(selected_turns)]

\* (variant for C11: the early return for the empty store reports the reserve
\* and the query's tokens)
ContextWindow_reserve(q, atts, sim) ==
    IF conversation_turns = <<>>
    THEN [messages |-> <<>>,
          total_tokens |-> 10 * (system_tokens + _count_tokens(q.words, q.enc)),
          summary |-> <<>>, key_points |-> <<>>]
    ELSE ContextWindow_noguard(q, atts, sim)

\* (variant for C30: the attachment contexts' tokens are left out of the total)
ContextWindow_nocost(q, atts, sim) ==
    IF conversation_turns = <<>>
    THEN [messages |-> <<>>, total_tokens |-> 0, summary |-> <<>>, key_points |-> <<>>]
    ELSE [ContextWindow_noguard(q, atts, sim) EXCEPT
              !.total_tokens = @ - AttachmentTokens(atts)]

\* The ContextWindow get_context_window returns for the query q (q.words,
\* q.enc as for _count_tokens).  total_tokens is in tenths of a token.
ContextWindow(q, atts, sim) ==
    IF conversation_turns = <<>>
    THEN [messages |-> <<>>, total_tokens |-> 0, summary |-> <<>>, key_points |-> <<>>]
    ELSE LET current_tokens == _count_tokens(q.words, q.enc)
             attachment_tokens == AttachmentTokens(atts)
             available_tokens ==
                 10 * (max_context_tokens - system_tokens - current_tokens)
                 - attachment_tokens
             selected_turns == _select_relevant_turns(q, sim, available_tokens)
         IN  [messages |-> MessagesOf(selected_turns),
              total_tokens |-> 10 * SumOver(selected_turns, "tokens_used")
                               + 10 * system_tokens + 10 * current_tokens
                               + attachment_tokens,
              summary |-> _get_relevant_summary(q),
              key_points |-> _extract_key_points(selected_turns)]

\* (variant for C16: the selection stores each turn's decayed score back into
\* the turn, as if the loop did turn.importance_score *= recency_factor)
get_context_window_decay(q, atts, sim) ==
    /\ ret' = [op |-> "get_context_window", val |-> ContextWindow(q, atts, sim),
               query |-> q, atts |-> atts, sim |-> sim]
    /\ conversation_turns' =
          [k \in DOMAIN conversation_turns |->
              [conversation_turns[k] EXCEPT !.importance_score =
                  (@ * DecayPow(Len(conversation_turns) - k)) \div 1000000]]
    /\ UNCHANGED <<summaries, max_context_tokens, tokenizer, embedding_model,
                   tasks, clock, recorded, loop_running>>

get_context_window(q, atts, sim) ==
    /\ ret' = [op |-> "get_context_window", val |-> ContextWindow(q, atts, sim),
               query |-> q, atts |-> atts, sim |-> sim]
    /\ UNCHANGED <<conversation_turns, summaries, max_context_tokens, tokenizer,
                   embedding_model, tasks, clock, recorded, loop_running>>

-----------------------------------------------------------------------------
(* Specifications *)

\* The state after ContextManager(max_context_tokens): the tokenizer and the
\* embedding model are made in one try block, so both are there or neither is.
\* loops: whether the host calls the engine from coroutines of a running event
\* loop (as CodingAgent.chat does) or from plain synchronous code
InitWith(budgets, loops) ==
    /\ conversation_turns = <<>>
    /\ summaries = <<>>
    /\ max_context_tokens \in budgets
    /\ tokenizer \in BOOLEAN
    /\ embedding_model = tokenizer
    /\ tasks = 0
    /\ clock = 0
    /\ recorded = 0
    /\ loop_running \in loops
    /\ ret = [op |-> "__init__"]

\* The embedding model's answers for the recorded turns: it raises for every
\* pair, or finds no turn similar to the query (cosine 0 for all), or finds one
\* turn of `hot` similar (cosine 1.0) and the others dissimilar (cosine -0.5)
Similarities(hot) ==
    IF embedding_model
    THEN {[i \in 1..recorded |-> <<>>], [i \in 1..recorded |-> <<0>>]}
         \cup {[i \in 1..recorded |-> IF i = k THEN <<100>> ELSE <<-50>>] : k \in hot}
    ELSE {[i \in 1..recorded |-> <<>>]}

(* Spec: a long conversation.  The n-th exchange is fixed by its number, so   *)
(* that the store can grow past the threshold: every fourth reply holds code,  *)
(* every sixth exchange has attachments, replies are at most 600 characters,   *)
(* every fifth is recorded at the same clock reading as the one before it,     *)
(* every third reply ends its sentence.                                        *)
LongExchange(n) ==
    [words |-> 20 + n, enc |-> <<30 + n>>,
     code |-> n % 4 = 0, att |-> n % 6 = 0,
     rlen |-> 100 * (n % 7), cx |-> n % 3,
     kw |-> IF n % 2 = 0 THEN {"login", "bug"}
            ELSE IF n > 10 THEN {"python"} ELSE {"python", "api"},
     kp |-> n % 3, tick |-> IF n % 5 = 0 THEN 0 ELSE 1,
     chars |-> 6 * (20 + n), dot |-> n % 3 = 0,
     imp |-> IF n % 4 = 0 THEN {"code", "function"} ELSE {}]

LongQueries ==
    { [words |-> 4, enc |-> <<5>>, kw |-> {"login", "bug"}, sub |-> {}],
      [words |-> 3, enc |-> <<>>, kw |-> {"python"}, sub |-> {"python"}] }

LongAttachments == { <<10, 7>> }

LongBudgets == {700, 8000}

Init == InitWith(LongBudgets, {TRUE})

RecordTurn == recorded < MaxTurns /\ add_conversation_turn(LongExchange(recorded + 1))

RunTask == _maybe_create_summary

BuildWindow ==
    \E q \in LongQueries, atts \in LongAttachments, sim \in Similarities({recorded} \ {0}) :
        get_context_window(q, atts, sim)

GetStats == get_conversation_stats

Next == RecordTurn \/ RunTask \/ BuildWindow \/ GetStats

Spec == Init /\ [][Next]_vars

(* SpecFair: Spec with the event loop's scheduling.  The loop runs every task  *)
(* that is ready once the running coroutine has given the loop back, so a      *)
(* scheduled task cannot wait forever.  TaskLeavesQueue is the step RunTask as *)
(* the loop's queue sees it: RunTask can be taken exactly when a task is       *)
(* waiting, it takes one task off the queue, and no other step of Next does.   *)
TaskLeavesQueue == tasks > 0 /\ tasks' = tasks - 1

SpecFair == Spec /\ WF_tasks(TaskLeavesQueue)

(* SpecAwaited: the long conversation of Spec with a host that gives the loop  *)
(* back between two exchanges: add_conversation_turn is called only when no    *)
(* scheduled task is waiting.                                                  *)
RecordAwaitedTurn == tasks = 0 /\ RecordTurn

NextAwaited == RecordAwaitedTurn \/ RunTask \/ BuildWindow \/ GetStats

SpecAwaited == Init /\ [][NextAwaited]_vars

(* SpecAnyCaller: the long conversation of Spec, with a host that calls the    *)
(* engine from coroutines of a running loop, or one that calls it from         *)
(* synchronous code.                                                           *)
InitAnyCaller == InitWith(LongBudgets, BOOLEAN)

SpecAnyCaller == InitAnyCaller /\ [][Next]_vars

(* SpecFull: the store at its capacity.  The run starts after FullStart calls   *)
(* of add_conversation_turn made in a row by one coroutine that did not give   *)
(* the loop back: every turn is live, and the tasks scheduled since the        *)
(* twentieth call are all waiting.  Further turns are recorded and waiting     *)
(* tasks run in any order.  The window is not built here.                      *)
StoredExchange(n) ==
    [ConversationTurn(LongExchange(n)) EXCEPT !.id = n, !.timestamp = n - n \div 5]

InitFull ==
    /\ max_context_tokens = 8000
    /\ tokenizer \in BOOLEAN
    /\ embedding_model = tokenizer
    /\ loop_running = TRUE
    /\ recorded = FullStart
    /\ clock = FullStart - FullStart \div 5
    /\ conversation_turns = [n \in 1..FullStart |-> StoredExchange(n)]
    /\ summaries = <<>>
    /\ tasks = FullStart - (summary_threshold - 1)
    /\ ret = [op |-> "add_conversation_turn", val |-> FullStart]

RecordFullTurn ==
    recorded < MaxFullTurns /\ add_conversation_turn(LongExchange(recorded + 1))

RunFullTask == Len(summaries) < MaxPasses /\ _maybe_create_summary

NextFull == RecordFullTurn \/ RunFullTask \/ GetStats

SpecFull == InitFull /\ [][NextFull]_vars

(* SpecWindow: a short conversation of varied exchanges, queried under small  *)
(* and large budgets.  The exchanges: a long reply with code (600 tokens by    *)
(* the tokenizer); a short plain one (300 tokens) recorded at the same clock   *)
(* reading as the turn before it; a two-word one with attachments for which    *)
(* the tokenizer raises.                                                       *)
WindowExchanges ==
    { [words |-> 452, enc |-> <<600>>, code |-> TRUE, att |-> FALSE, rlen |-> 1200,
       cx |-> 2, kw |-> {"login", "bug"}, kp |-> 2, tick |-> 1,
       chars |-> 2700, dot |-> TRUE, imp |-> {"fix", "code"}],
      [words |-> 226, enc |-> <<300>>, code |-> FALSE, att |-> FALSE, rlen |-> 100,
       cx |-> 0, kw |-> {"python"}, kp |-> 0, tick |-> 0,
       chars |-> 1300, dot |-> FALSE, imp |-> {}],
      [words |-> 2, enc |-> <<>>, code |-> FALSE, att |-> TRUE, rlen |-> 600,
       cx |-> 15, kw |-> {}, kp |-> 11, tick |-> 1,
       chars |-> 610, dot |-> FALSE, imp |-> {}] }

WindowQueries ==
    { [words |-> 4, enc |-> <<6>>, kw |-> {"fix", "login", "bug"}, sub |-> {}],
      [words |-> 4, enc |-> <<>>, kw |-> {"python"}, sub |-> {"python"}] }

WindowAttachments == { <<>>, <<10, 7>> }

WindowBudgets == {0, 505, 1005, 8000}

InitWindow == InitWith(WindowBudgets, {TRUE})

RecordShortTurn ==
    \E x \in WindowExchanges : recorded < MaxStore /\ add_conversation_turn(x)

BuildShortWindow ==
    \E q \in WindowQueries, atts \in WindowAttachments, sim \in Similarities(1..recorded) :
        get_context_window(q, atts, sim)

NextWindow == RecordShortTurn \/ BuildShortWindow \/ GetStats

SpecWindow == InitWindow /\ [][NextWindow]_vars

(* SpecSummary: one summarization pass over varied texts.  The run starts      *)
(* after the twentieth add_conversation_turn: twenty turns are live and the    *)
(* task that call scheduled is waiting.  The exchanges recorded are drawn from *)
(* three: two words without a closing '.' ("fix bug", 2 tokens by the          *)
(* tokenizer), two words closed by a '.' ("ok thanks.", 3 tokens), and a       *)
(* closed reply of 40 words with code.  The conversation repeats a pattern of  *)
(* SummaryPeriod exchanges.                                                    *)
SummaryExchanges ==
    { [words |-> 2, enc |-> <<2>>, code |-> FALSE, att |-> FALSE, rlen |-> 3,
       cx |-> 0, kw |-> {"fix", "bug"}, kp |-> 0, tick |-> 1,
       chars |-> 7, dot |-> FALSE, imp |-> {"fix"}],
      [words |-> 2, enc |-> <<3>>, code |-> FALSE, att |-> FALSE, rlen |-> 7,
       cx |-> 0, kw |-> {"thanks"}, kp |-> 0, tick |-> 1,
       chars |-> 9, dot |-> TRUE, imp |-> {}],
      [words |-> 40, enc |-> <<55>>, code |-> TRUE, att |-> FALSE, rlen |-> 230,
       cx |-> 1, kw |-> {"database", "api", "index"}, kp |-> 1, tick |-> 1,
       chars |-> 250, dot |-> TRUE, imp |-> {"implement", "database", "api"}] }

InitSummary ==
    /\ max_context_tokens = 8000
    /\ tokenizer \in BOOLEAN
    /\ embedding_model = tokenizer
    /\ loop_running = TRUE
    /\ recorded = summary_threshold
    /\ clock = summary_threshold
    /\ \E pattern \in [0..(SummaryPeriod - 1) -> SummaryExchanges] :
          conversation_turns =
              [n \in 1..summary_threshold |->
                  [ConversationTurn(pattern[n % SummaryPeriod])
                      EXCEPT !.id = n, !.timestamp = n]]
    /\ summaries = <<>>
    /\ tasks = 1
    /\ ret = [op |-> "add_conversation_turn", val |-> summary_threshold]

NextSummary == RunTask \/ GetStats

SpecSummary == InitSummary /\ [][NextSummary]_vars

(* SpecImportance: _calculate_importance_score applied to one exchange.  The   *)
(* exchange is drawn in the initial state: with or without code fragments and  *)
(* attachments, a reply of a length on either side of the two thresholds of    *)
(* the length bonus, and a user message in which any number of the complexity  *)
(* keywords occur, some of them more than once.                                *)
ReplyLengths == {0, 500, 501, 1000, 1001, 1200}

\* the keyword occurrences of a user message in which the first d keywords
\* occur and r further occurrences repeat them
Occurrences(d, r) ==
    IF d = 0 THEN <<>> ELSE [i \in 1..(d + r) |-> ((i - 1) % d) + 1]

UserMessages ==
    {Occurrences(d, r) : d \in 0..complexity_keywords, r \in 0..MaxRepeats}

InitImportance ==
    /\ conversation_turns = <<>>
    /\ summaries = <<>>
    /\ max_context_tokens = 8000
    /\ tokenizer \in BOOLEAN
    /\ embedding_model = tokenizer
    /\ tasks = 0
    /\ clock = 0
    /\ recorded = 0
    /\ loop_running = TRUE
    /\ \E code \in BOOLEAN, att \in BOOLEAN, rlen \in ReplyLengths,
          hits \in UserMessages :
          ret = [op |-> "exchange", code |-> code, att |-> att, rlen |-> rlen,
                 hits |-> hits]

ScoreExchange ==
    /\ ret.op = "exchange"
    /\ ret' = [op |-> "_calculate_importance_score",
               code |-> ret.code, att |-> ret.att, rlen |-> ret.rlen,
               hits |-> ret.hits, cx |-> complexity_score(ret.hits),
               val |-> _calculate_importance_score(ret.code, ret.att, ret.rlen,
                                                   complexity_score(ret.hits))]
    /\ UNCHANGED <<conversation_turns, summaries, max_context_tokens, tokenizer,
                   embedding_model, tasks, clock, recorded, loop_running>>

NextImportance == ScoreExchange

SpecImportance == InitImportance /\ [][NextImportance]_vars

-----------------------------------------------------------------------------
(* Properties *)

\* the ids of the live turns
LiveIds == {conversation_turns[i].id : i \in DOMAIN conversation_turns}

\* the ids of the turns summary k was made from
CoveredIds(k) == Range(summaries[k].covered)

\* the ids of the turns some summary was made from
EvictedIds == UNION {CoveredIds(k) : k \in DOMAIN summaries}

IdsOf(turns) == [i \in DOMAIN turns |-> turns[i].id]

\* the length of combined_text, the messages of `turns` joined by single spaces
CombinedChars(turns) ==
    SumOver(turns, "chars") + Cardinality({i \in DOMAIN turns : turns[i].dot})
    + (Len(turns) - 1)

C3_ReadersSeeNoPartialEviction ==
    ret.op \in {"get_context_window", "get_conversation_stats"} =>
        /\ \A k \in DOMAIN summaries : CoveredIds(k) \cap LiveIds = {}
        /\ \A id \in 1..recorded : id \in LiveIds \/ id \in EvictedIds
        /\ (ret.op = "get_conversation_stats" /\ "total_turns" \in DOMAIN ret.val) =>
              /\ ret.val.summaries_created = Len(summaries)
              /\ ret.val.total_turns + Cardinality(EvictedIds) = recorded
        /\ ret.op = "get_context_window" =>
              {ret.val.messages[i].turn : i \in DOMAIN ret.val.messages}
                  \subseteq LiveIds \ EvictedIds

\* C3 witness: a window built between two runs of scheduled tasks, after the
\* first of them evicted
C3_Witness ==
    /\ ret.op = "get_context_window"
    /\ Len(summaries) = 1
    /\ tasks > 0
    /\ ret.val.messages # <<>>

\* C4: no live turn is covered by a summary, and a run of the task that
\* appended a summary removed exactly the turns that summary covers, in the
\* same order; a run that appended none removed nothing.
C4_EvictedAreTheCovered ==
    /\ \A k \in DOMAIN summaries : CoveredIds(k) \cap LiveIds = {}
    /\ ret.op = "_maybe_create_summary" =>
          IF ret.created = 1
          THEN IdsOf(ret.evicted) = summaries[Len(summaries)].covered
          ELSE ret.evicted = <<>> /\ ret.created = 0

\* C4 witness: the second evicting run, with further scheduled tasks waiting
\* and turns appended since the first
C4_Witness ==
    /\ ret.op = "_maybe_create_summary"
    /\ ret.created = 1
    /\ Len(summaries) = 2
    /\ tasks > 0
    /\ summaries[2].covered[1] = summary_threshold \div 2 + 1

\* C5: after 25 recorded turns, once no scheduled task is left, there is one
\* summary, of turns 1..10, and turns 11..25 are live.
C5_TwentyFiveTurnsOnePass ==
    (recorded = 25 /\ tasks = 0) =>
        /\ Len(summaries) = 1
        /\ summaries[1].covered = [i \in 1..10 |-> i]
        /\ IdsOf(conversation_turns) = [i \in 1..15 |-> i + 10]

\* C5 witness: 25 turns recorded and every scheduled task has run
C5_Witness ==
    /\ recorded = 25
    /\ tasks = 0
    /\ ret.op = "_maybe_create_summary"
    /\ Len(conversation_turns) = 15

\* C6: a step in which add_conversation_turn returns appends the new turn as
\* the newest live turn, removes no turn but what the full deque drops, leaves
\* the summaries alone and, when the store then holds summary_threshold turns
\* or more, adds one scheduled task: the eviction is left to a later step.
C6_RecordTurnOnlySchedules ==
    [][ ret'.op = "add_conversation_turn" =>
          /\ conversation_turns' # <<>>
          /\ conversation_turns' =
                DequeAppend(conversation_turns,
                            conversation_turns'[Len(conversation_turns')])
          /\ conversation_turns'[Len(conversation_turns')].id = ret'.val
          /\ summaries' = summaries
          /\ tasks' = IF Len(conversation_turns') >= summary_threshold
                      THEN tasks + 1 ELSE tasks ]_vars

\* C6 witness: the append that brings the store to the threshold has returned;
\* all twenty turns are live and the task is scheduled, not run
C6_Witness ==
    /\ ret.op = "add_conversation_turn"
    /\ Len(conversation_turns) = summary_threshold
    /\ conversation_turns[summary_threshold].id = ret.val
    /\ tasks = 1
    /\ summaries = <<>>

\* C7: when a run of the task has just appended a summary and left fewer than
\* summary_threshold turns, another run of the task as the very next step
\* changes neither the store nor the summaries.
C7_RerunAfterPassEvictsNothing ==
    [][ ( /\ ret.op = "_maybe_create_summary"
          /\ ret.created = 1
          /\ Len(conversation_turns) < summary_threshold
          /\ ret'.op = "_maybe_create_summary" )
        => /\ conversation_turns' = conversation_turns
           /\ summaries' = summaries ]_vars

\* C7 witness: a run right after an evicting run found the store below the
\* threshold and did nothing
C7_Witness ==
    /\ ret.op = "_maybe_create_summary"
    /\ ret.after_pass
    /\ ret.size < summary_threshold
    /\ ret.created = 0
    /\ ret.evicted = <<>>

\* Of the window in ret: the query's token cost (whole tokens), the tokens
\* of the query and the attachment contexts (tenths), what the window reports
\* when no turn is selected (tenths), the budget left for turns (tenths), the
\* candidates in the order the selection loop considers them
QueryTokens == _count_tokens(ret.query.words, ret.query.enc)

QueryAndAttachments == 10 * QueryTokens + AttachmentTokens(ret.atts)

ReservedTotal == 10 * system_tokens + QueryAndAttachments

Available == 10 * max_context_tokens - ReservedTotal

Candidates == SortByScore(turn_scores(ret.query, ret.sim))

SelectedIds == {ret.val.messages[i].turn : i \in DOMAIN ret.val.messages}

\* the token cost, in tenths, of the first k candidates
RECURSIVE CostOfFirst(_, _)
CostOfFirst(cands, k) ==
    IF k = 0 THEN 0 ELSE 10 * cands[k].turn.tokens_used + CostOfFirst(cands, k - 1)

C8_MessagesInTimestampOrder ==
    ret.op = "get_context_window" =>
        \A i, j \in DOMAIN ret.val.messages :
            i < j => ret.val.messages[i].timestamp <= ret.val.messages[j].timestamp

\* C8 witness: two turns were accepted newest first and are returned oldest first
C8_Witness ==
    /\ ret.op = "get_context_window"
    /\ Len(ret.val.messages) >= 4
    /\ LET accepted == SelectWhileFits(Candidates, 0, Available)
       IN  /\ accepted[1].timestamp > accepted[2].timestamp
           /\ ret.val.messages[1].turn = accepted[2].id

\* C9: the candidates are taken in non-increasing score order, and the selected
\* turns are the first k of them for the k at which the loop stops: the first
\* k fit the remaining budget together and, unless all were taken, the next
\* one does not fit on top of them; nothing after it is selected.
C9_GreedyStop ==
    (ret.op = "get_context_window" /\ conversation_turns # <<>>) =>
        /\ \A i, j \in DOMAIN Candidates :
              i < j => Candidates[i].score >= Candidates[j].score
        /\ {Candidates[i].turn.id : i \in DOMAIN Candidates} = LiveIds
        /\ \E k \in 0..Len(Candidates) :
              /\ SelectedIds = {Candidates[i].turn.id : i \in 1..k}
              /\ k > 0 => CostOfFirst(Candidates, k) <= Available
              /\ k < Len(Candidates) => CostOfFirst(Candidates, k + 1) > Available

\* C9 witness: 500 tokens left; the top candidate scores 2.5 and costs 600, the
\* other scores 1.0 and costs 300; neither is selected
C9_Witness ==
    /\ ret.op = "get_context_window"
    /\ Available = 5000
    /\ Len(Candidates) = 2
    /\ Candidates[1].score = 250000000 /\ Candidates[1].turn.tokens_used = 600
    /\ Candidates[2].score = 100000000 /\ Candidates[2].turn.tokens_used = 300
    /\ ret.val.messages = <<>>

\* C10 as stated: on an empty store the window has no message and its total is
\* the query's token cost plus the reserve.
C10_EmptyStoreCountsQueryAndReserve ==
    (ret.op = "get_context_window" /\ conversation_turns = <<>>) =>
        /\ ret.val.messages = <<>>
        /\ ret.val.total_tokens = 10 * (QueryTokens + system_tokens)

\* C10 amended: on an empty store the window has no message and its total is
\* 0: neither the query's token cost nor the reserve is counted.
C10_EmptyStoreTotalIsZero ==
    (ret.op = "get_context_window" /\ conversation_turns = <<>>) =>
        /\ ret.val.messages = <<>>
        /\ ret.val.total_tokens = 0
        /\ ret.val.total_tokens < 10 * (QueryTokens + system_tokens)

\* C10 witness: a window built for a four-word query before any turn is recorded
C10_Witness ==
    /\ ret.op = "get_context_window"
    /\ recorded = 0
    /\ conversation_turns = <<>>
    /\ ret.query.words = 4
    /\ QueryTokens > 0

\* C11: a window built before any turn was ever recorded is returned, and it
\* is empty: no message, a total of zero tokens, no summary and no key point.
C11_NothingRecordedEmptyWindow ==
    (ret.op = "get_context_window" /\ recorded = 0) =>
        /\ ret.val.messages = <<>>
        /\ ret.val.total_tokens = 0
        /\ ret.val.summary = <<>>
        /\ ret.val.key_points = <<>>

\* C11 witness: a window asked for with attachment contexts, under the default
\* budget, before any turn is recorded
C11_Witness ==
    /\ ret.op = "get_context_window"
    /\ recorded = 0
    /\ ret.atts # <<>>
    /\ max_context_tokens = 8000
    /\ ret.val.messages = <<>>

\* C12: when the reserve, the query's tokens and the attachment contexts'
\* tokens together exceed the budget, the window that is returned holds no
\* message and no key point, and reports either 0 (empty store) or the reserve
\* plus the query's and the attachments' tokens.
C12_ExhaustedBudgetSelectsNothing ==
    (ret.op = "get_context_window" /\ ReservedTotal > 10 * max_context_tokens) =>
        /\ ret.val.messages = <<>>
        /\ ret.val.key_points = <<>>
        /\ ret.val.total_tokens \in {0, ReservedTotal}

\* C12 witness: three turns are live, one of them of two tokens; the reserve
\* and the query fit the budget of 505 but the attachments do not
C12_Witness ==
    /\ ret.op = "get_context_window"
    /\ Len(conversation_turns) = 3
    /\ \E i \in DOMAIN conversation_turns : conversation_turns[i].tokens_used = 2
    /\ 10 * (system_tokens + QueryTokens) <= 10 * max_context_tokens
    /\ ReservedTotal > 10 * max_context_tokens
    /\ ret.val.messages = <<>>
    /\ ret.val.total_tokens = ReservedTotal

C16_ReadersChangeNothing ==
    [][ ret'.op \in {"get_context_window", "get_conversation_stats"} =>
          /\ conversation_turns' = conversation_turns
          /\ summaries' = summaries ]_vars

\* C16 witness: a window was built in which recency decay lowered one turn's
\* relevance score below its stored importance and similarity raised
\* another's above it; the stored scores are those computed at insertion
C16_Witness ==
    /\ ret.op = "get_context_window"
    /\ ret.val.messages # <<>>
    /\ \E k \in DOMAIN Candidates :
          Candidates[k].score < Candidates[k].turn.importance_score * 1000000
    /\ \E k \in DOMAIN Candidates :
          Candidates[k].score > Candidates[k].turn.importance_score * 1000000
    /\ \A i \in DOMAIN conversation_turns :
          conversation_turns[i].importance_score \in {100, 130, 200, 300}

\* C17: every step keeps the summaries there were, unchanged and in place; the
\* list grows by at most one summary in a step, and it grows exactly in the
\* steps in which a run of the summarization task evicted turns.
C17_SummariesAppendOnly ==
    [][ /\ Len(summaries') \in {Len(summaries), Len(summaries) + 1}
        /\ SubSeq(summaries', 1, Len(summaries)) = summaries
        /\ Len(summaries') = Len(summaries) + 1
              <=> /\ ret'.op = "_maybe_create_summary"
                  /\ ret'.evicted # <<>>
                  /\ conversation_turns' # conversation_turns ]_vars

\* C17 witness: two summaries exist and a window has just consulted them and
\* returned the text of one
C17_Witness ==
    /\ Len(summaries) = 2
    /\ ret.op = "get_context_window"
    /\ ret.val.summary # <<>>
    /\ summaries[1].covered[1] = 1

\* C18: the importance score computed for an exchange, whatever its code
\* fragments, attachments, reply length and keywords, is at least 1.0 and at
\* most 3.0.
C18_ImportanceWithinBounds ==
    ret.op = "_calculate_importance_score" => (100 <= ret.val /\ ret.val <= 300)

\* C18 witness: code, attachments, a long reply and all fifteen keywords, 3.84
\* before the cap, are scored 3.0
C18_Witness ==
    /\ ret.op = "_calculate_importance_score"
    /\ ret.code /\ ret.att /\ ret.rlen > 500 /\ ret.cx = complexity_keywords
    /\ ret.val = 300

\* C19 as stated: the length bonus is 1.4 for a reply longer than 1000
\* characters and 1.2 for one longer than 500 and no longer than 1000; an
\* exchange with code, no attachments, a 1200-character reply and no keyword
\* scores 2.1.
C19_LongerReplyLargerBonus ==
    ret.op = "_calculate_importance_score" =>
        LET b1 == IF ret.code THEN 150 ELSE 100
            b2 == IF ret.att THEN (b1 * 13) \div 10 ELSE b1
            b3 == IF ret.rlen > 1000 THEN (b2 * 14) \div 10
                  ELSE IF ret.rlen > 500 THEN (b2 * 12) \div 10
                  ELSE b2
        IN  /\ ret.val = Min(b3 + ret.cx * 10, 300)
            /\ (ret.code /\ ~ret.att /\ ret.rlen = 1200 /\ ret.cx = 0) => ret.val = 210

\* C19 witness: the exchange with code, no attachments, a 1200-character reply
\* and no keyword is scored 1.8
C19_Witness ==
    /\ ret.op = "_calculate_importance_score"
    /\ ret.code /\ ~ret.att /\ ret.rlen = 1200 /\ ret.cx = 0
    /\ ret.val = 180

\* C13 as stated: add_conversation_turn always returns the id of the turn it
\* appended and get_context_window always returns a ContextWindow, whether or
\* not the tokenizer and the embedding model are there or fail, and whether or
\* not the caller is inside a running event loop.
C13_NeverRaises ==
    /\ ret.op = "add_conversation_turn" =>
          /\ "val" \in DOMAIN ret
          /\ ret.val = conversation_turns[Len(conversation_turns)].id
    /\ ret.op = "get_context_window" =>
          /\ "val" \in DOMAIN ret
          /\ DOMAIN ret.val = {"messages", "total_tokens", "summary", "key_points"}

\* C13 witness: the twentieth add_conversation_turn of a caller outside a
\* running loop has raised; the turn is stored and no task is scheduled
C13_Witness ==
    /\ ret.op = "add_conversation_turn"
    /\ "raised" \in DOMAIN ret
    /\ ~loop_running
    /\ Len(conversation_turns) = summary_threshold
    /\ recorded = summary_threshold
    /\ tasks = 0

\* C14: the store never holds more than deque_maxlen turns, and a step in which
\* add_conversation_turn returns from a full store leaves it full: the oldest
\* turn is gone, the others are kept in their order, the new turn is the last.
C14_FullStoreDropsOldest ==
    /\ [](Len(conversation_turns) <= deque_maxlen)
    /\ [][ (ret'.op = "add_conversation_turn" /\ Len(conversation_turns) = deque_maxlen)
           => /\ Len(conversation_turns') = deque_maxlen
              /\ SubSeq(conversation_turns', 1, deque_maxlen - 1)
                    = Tail(conversation_turns)
              /\ conversation_turns'[deque_maxlen].id = ret'.val ]_vars

\* C14 witness: a pass evicted turns 1..10, the store filled up again and the
\* next append dropped turn 11, with scheduled tasks still waiting
C14_Witness ==
    /\ ret.op = "add_conversation_turn"
    /\ Len(conversation_turns) = deque_maxlen
    /\ Len(summaries) = 1
    /\ tasks > 0
    /\ conversation_turns[1].id = summary_threshold \div 2 + 2
    /\ conversation_turns[deque_maxlen].id = ret.val

\* C20 as stated: when a pass has summarized a block of turns and the summary
\* text is strictly shorter than the joined text of the block, the summary's
\* tokens_saved is not negative.
C20_ShorterSummarySavesTokens ==
    ( /\ ret.op = "_maybe_create_summary"
      /\ ret.created = 1
      /\ ret.evicted # <<>>
      /\ summaries[Len(summaries)].summary_text.chars < CombinedChars(ret.evicted) )
    => summaries[Len(summaries)].tokens_saved >= 0

\* C20 witness: ten two-word exchanges, two of them closed by a '.', counted
\* 2 tokens each by the word estimate: 20 tokens; the summary keeps 18 of the
\* 20 words, estimated at 23.4 tokens, and tokens_saved is -3
C20_Witness ==
    /\ ret.op = "_maybe_create_summary"
    /\ ret.created = 1
    /\ ~tokenizer
    /\ SumOver(ret.evicted, "tokens_used") = 20
    /\ SumOver(ret.evicted, "words") = 20
    /\ summaries[1].summary_text.words = 18
    /\ summaries[1].summary_text.chars < CombinedChars(ret.evicted)
    /\ summaries[1].tokens_saved = -3

\* C21: a run of the summarization task that finds summary_threshold live
\* turns or more appends one summary, made from the summary_threshold / 2
\* oldest turns: it covers them in order, its period starts at the timestamp
\* of the oldest and ends at the timestamp of the tenth; the run removes these
\* turns and leaves the newer ones as they were, in their order.
C21_PassTakesOldestHalf ==
    [][ (ret'.op = "_maybe_create_summary"
         /\ Len(conversation_turns) >= summary_threshold)
        => LET half == summary_threshold \div 2
               prefix == SubSeq(conversation_turns, 1, half)
               latest == summaries'[Len(summaries')]
           IN  /\ summaries' = Append(summaries, latest)
               /\ latest.covered = IdsOf(prefix)
               /\ latest.period_start = prefix[1].timestamp
               /\ latest.period_end = prefix[half].timestamp
               /\ conversation_turns'
                     = SubSeq(conversation_turns, half + 1, Len(conversation_turns))
               /\ ret'.evicted = prefix ]_vars

\* C21 witness: a run found 25 live turns; its summary spans the clock
\* readings 1 to 8 of turns 1 to 10, and turns 11 to 25 are live
C21_Witness ==
    /\ ret.op = "_maybe_create_summary"
    /\ ret.size = 25
    /\ ret.created = 1
    /\ summaries[1].period_start = 1
    /\ summaries[1].period_end = 8
    /\ IdsOf(conversation_turns) = [i \in 1..15 |-> i + 10]

\* C22: the summary of a returned window is absent or the text of one stored
\* summary.  When no stored summary scores above 0.5 for the query it is
\* absent; otherwise it is the text of a summary whose score no other stored
\* summary exceeds.
C22_MostRelevantSummaryAttached ==
    ret.op = "get_context_window" =>
        LET above == {k \in DOMAIN summaries :
                         SummaryScore(summaries[k], ret.query) > 50000000}
        IN  /\ Len(ret.val.summary) <= 1
            /\ above = {} => ret.val.summary = <<>>
            /\ above # {} =>
                  \E k \in above :
                      /\ ret.val.summary = <<summaries[k].summary_text>>
                      /\ \A j \in DOMAIN summaries :
                            SummaryScore(summaries[j], ret.query)
                               <= SummaryScore(summaries[k], ret.query)

\* C22 witness: two summaries score above 0.5 for the query, the second higher
\* than the first, and the window carries the text of the second
C22_Witness ==
    /\ ret.op = "get_context_window"
    /\ Len(summaries) = 2
    /\ SummaryScore(summaries[1], ret.query) > 50000000
    /\ SummaryScore(summaries[2], ret.query) > SummaryScore(summaries[1], ret.query)
    /\ ret.val.summary = <<summaries[2].summary_text>>
    /\ summaries[1].summary_text # summaries[2].summary_text

\* C23 as stated: the text of a summary just made holds at most five sentences
\* of the summarized text, none of them scoring less than a sentence of 20
\* characters or more that was left out, and they follow one another in the
\* order they have in the summarized text.
C23_TopSentencesInOriginalOrder ==
    (ret.op = "_maybe_create_summary" /\ ret.created = 1) =>
        LET kept == summaries[Len(summaries)].summary_text.sentences
            all == Sentences(ret.evicted)
            Score(p) == Min(p.chars, 100) + 100 * Cardinality(p.imp)
        IN  /\ Len(kept) <= 5
            /\ \A p, r \in Range(all) :
                  (p.first \in Range(kept) /\ r.first \notin Range(kept)
                     /\ r.chars >= 20) => Score(p) >= Score(r)
            /\ \A i, j \in DOMAIN kept : i < j => kept[i] < kept[j]

\* C23 witness: the summarized text has a sentence that starts at turn 1 and a
\* higher-scoring one that starts at turn 5; the summary text gives the
\* later one first
C23_Witness ==
    /\ ret.op = "_maybe_create_summary"
    /\ ret.created = 1
    /\ summaries[1].summary_text.sentences = <<5, 1>>

\* C24 as stated: the importance score is the score the exchange would have
\* with no complexity keyword in the user message, plus 0.1 for each
\* occurrence of a complexity keyword in it, capped at 3.0.
C24_BonusPerOccurrence ==
    ret.op = "_calculate_importance_score" =>
        ret.val = Min(_calculate_importance_score(ret.code, ret.att, ret.rlen, 0)
                        + 10 * Len(ret.hits), 300)

\* C24 witness: a plain exchange whose user message holds one complexity
\* keyword three times is scored 1.1
C24_Witness ==
    /\ ret.op = "_calculate_importance_score"
    /\ ~ret.code /\ ~ret.att /\ ret.rlen = 0
    /\ ret.hits = <<1, 1, 1>>
    /\ ret.val = 110

\* C25: with the callers inside a running event loop, whenever the store holds
\* summary_threshold turns or more a scheduled summarization task is waiting;
\* whenever none is waiting the store holds fewer.
C25_FullStoreHasTaskWaiting ==
    loop_running =>
        /\ Len(conversation_turns) >= summary_threshold => tasks >= 1
        /\ tasks = 0 => Len(conversation_turns) < summary_threshold

\* C25 witness: after a run of the task that found thirty turns, twenty are
\* live and further tasks are waiting
C25_Witness ==
    /\ loop_running
    /\ ret.op = "_maybe_create_summary"
    /\ ret.size = 30
    /\ ret.created = 1
    /\ Len(conversation_turns) = summary_threshold
    /\ tasks >= 1

\* C26: when scheduled tasks are not left waiting forever, the system comes to
\* have no task waiting and fewer than summary_threshold live turns, and stays
\* so (a run records MaxTurns turns at most, so the calls of
\* add_conversation_turn stop in every behaviour).
C26_TasksDrain ==
    <>[](tasks = 0 /\ Len(conversation_turns) < summary_threshold)

\* C26 witness: the last of several waiting tasks has run and found nothing to
\* do; two passes evicted before it and the store is below the threshold
C26_Witness ==
    /\ ret.op = "_maybe_create_summary"
    /\ ret.created = 0
    /\ ret.size < summary_threshold
    /\ tasks = 0
    /\ Len(summaries) = 2
    /\ recorded >= summary_threshold + summary_threshold \div 2

\* C27: when add_conversation_turn is called only while no scheduled task is
\* waiting, the store never holds more than summary_threshold turns, so it is
\* never at its capacity when a turn is appended, and every turn recorded so
\* far is live or is covered by a summary.
C27_AwaitedStoreWithinThreshold ==
    /\ Len(conversation_turns) <= summary_threshold
    /\ Len(conversation_turns) < deque_maxlen
    /\ \A id \in 1..recorded : id \in LiveIds \/ id \in EvictedIds

\* C27 witness: the store reaches summary_threshold turns for the second time,
\* after a pass that ran before the turns that followed it were recorded
C27_Witness ==
    /\ ret.op = "add_conversation_turn"
    /\ Len(summaries) = 1
    /\ Len(conversation_turns) = summary_threshold
    /\ tasks = 1
    /\ recorded = summary_threshold + summary_threshold \div 2

\* C28: the turns recorded so far are the live turns, summary_threshold \div 2
\* turns for each summary, and the turns that are neither live nor covered;
\* every summary covers summary_threshold \div 2 different turns and no turn
\* is covered by two summaries; and a turn comes to be neither live nor
\* covered only as the oldest turn of a full store onto which a turn is
\* appended.
C28_TurnAccountingConserved ==
    /\ [](LET dropped == (1..recorded) \ (LiveIds \cup EvictedIds)
          IN  /\ recorded = Len(conversation_turns)
                              + (summary_threshold \div 2) * Len(summaries)
                              + Cardinality(dropped)
              /\ \A k \in DOMAIN summaries :
                    /\ Len(summaries[k].covered) = summary_threshold \div 2
                    /\ Cardinality(CoveredIds(k)) = summary_threshold \div 2
              /\ \A j, k \in DOMAIN summaries :
                    j # k => CoveredIds(j) \cap CoveredIds(k) = {})
    /\ [][LET dropped == (1..recorded) \ (LiveIds \cup EvictedIds)
              dropped_after == (1..recorded') \ (LiveIds' \cup EvictedIds')
          IN  dropped_after # dropped =>
                /\ Len(conversation_turns) = deque_maxlen
                /\ recorded' = recorded + 1
                /\ dropped_after = dropped \cup {conversation_turns[1].id}]_vars

\* C28 witness: a pass has run on a store that had dropped turns by overflow
C28_Witness ==
    /\ ret.op = "_maybe_create_summary"
    /\ ret.created = 1
    /\ Len(summaries) = 2
    /\ Cardinality((1..recorded) \ (LiveIds \cup EvictedIds)) >= 2
    /\ \E k \in DOMAIN summaries : 1 \notin CoveredIds(k)

\* C29: once a turn has been recorded the store is not empty: a run of the
\* task removes turns only from a store of summary_threshold turns or more,
\* removes summary_threshold \div 2 of them and leaves as many or more; and
\* get_conversation_stats returns its empty record, without total_turns and
\* summaries_created, only when no turn has been recorded, and never while
\* there is a summary.
C29_StoreNeverEmptiedAgain ==
    /\ recorded > 0 => conversation_turns # <<>>
    /\ (ret.op = "_maybe_create_summary" /\ ret.evicted # <<>>) =>
          /\ ret.size >= summary_threshold
          /\ Len(ret.evicted) = summary_threshold \div 2
          /\ Len(conversation_turns) >= summary_threshold \div 2
    /\ ret.op = "get_conversation_stats" =>
          /\ "total_turns" \notin DOMAIN ret.val => (recorded = 0 /\ summaries = <<>>)
          /\ summaries # <<>> =>
                {"total_turns", "summaries_created"} \subseteq DOMAIN ret.val

\* C29 witness: statistics taken of a store that two passes have brought down
\* to summary_threshold \div 2 turns
C29_Witness ==
    /\ ret.op = "get_conversation_stats"
    /\ Len(summaries) = 2
    /\ Len(conversation_turns) = summary_threshold \div 2
    /\ ret.val.total_turns = summary_threshold \div 2
    /\ ret.val.summaries_created = 2

\* C30 as stated: when the reserve, the query's tokens and the attachment
\* contexts' tokens fit the budget, the window's total is within the budget
\* and is the selected turns' stored token counts plus the reserve, the
\* query's tokens and the attachment tokens.
C30_TotalIsSelectedPlusReserved ==
    (ret.op = "get_context_window" /\ ReservedTotal <= 10 * max_context_tokens) =>
        LET selected == SelectSeq(conversation_turns, LAMBDA t : t.id \in SelectedIds)
        IN  /\ ret.val.total_tokens <= 10 * max_context_tokens
            /\ ret.val.total_tokens
                  = 10 * SumOver(selected, "tokens_used") + ReservedTotal

\* C30 amended: that holds of a window built on a store that is not empty,
\* whatever summary and key points are attached; on an empty store the total
\* is 0, less than the reserve.
C30_TotalIsSelectedPlusReservedUnlessEmpty ==
    (ret.op = "get_context_window" /\ ReservedTotal <= 10 * max_context_tokens) =>
        LET selected == SelectSeq(conversation_turns, LAMBDA t : t.id \in SelectedIds)
        IN  IF conversation_turns = <<>>
            THEN ret.val.total_tokens = 0 /\ ret.val.total_tokens < ReservedTotal
            ELSE /\ ret.val.total_tokens <= 10 * max_context_tokens
                 /\ ret.val.total_tokens
                       = 10 * SumOver(selected, "tokens_used") + ReservedTotal

\* C30 witness: a window under the small budget that holds some of the live
\* turns and not others, with a summary and key points attached
C30_Witness ==
    /\ ret.op = "get_context_window"
    /\ ReservedTotal <= 10 * max_context_tokens
    /\ max_context_tokens < 8000
    /\ ret.val.messages # <<>>
    /\ Cardinality(SelectedIds) < Len(conversation_turns)
    /\ ret.val.summary # <<>>
    /\ ret.val.key_points # <<>>
    /\ ret.atts # <<>>

=============================================================================
